---- MODULE Spec2Model ----
(***************************************************************************)
(* fastapi_version_handler: version classification, closest-match          *)
(* resolution, the version route table and per-request route-set dispatch. *)
(*                                                                         *)
(* A version token is a Python str, modelled as a sequence of one-character*)
(* strings, so that the regular expression, split("-"), the "v" prefix and *)
(* the code-point ordering used by max(), sorted() and bisect are computed *)
(* on the characters, as the code computes them.                           *)
(***************************************************************************)
EXTENDS Integers, Sequences, FiniteSets, TLC

\* ------------------------------------------------------------------ bounds
MaxAvail == 3       \* longest candidate list handed to a resolver
MaxRegs == 3        \* include_router calls after construction
NumRequests == 2    \* requests served, any of them in flight at once

\* ------------------------------------------------------- Python str model
DigitChars == <<"0", "1", "2", "3", "4", "5", "6", "7", "8", "9">>

IsDigit(c) == \E i \in 1..10 : DigitChars[i] = c

DigitVal(c) == (CHOOSE i \in 1..10 : DigitChars[i] = c) - 1

\* Unicode code point of a character (ord).
Ord(c) ==
    IF IsDigit(c) THEN 48 + DigitVal(c)
    ELSE IF c = "-" THEN 45
    ELSE IF c = "." THEN 46
    ELSE IF c = "v" THEN 118
    ELSE 120

\* a < b for Python str: code points left to right, a proper prefix is less.
RECURSIVE StrLess(_, _)
StrLess(a, b) ==
    IF a = <<>> THEN b # <<>>
    ELSE IF b = <<>> THEN FALSE
    ELSE IF Head(a) = Head(b) THEN StrLess(Tail(a), Tail(b))
    ELSE Ord(Head(a)) < Ord(Head(b))

\* str.split(sep) for a one-character separator.
RECURSIVE Split(_, _)
Split(s, sep) ==
    IF \A i \in 1..Len(s) : s[i] # sep THEN <<s>>
    ELSE LET k == CHOOSE i \in 1..Len(s) :
                      s[i] = sep /\ \A j \in 1..(i - 1) : s[j] # sep
         IN <<SubSeq(s, 1, k - 1)>> \o Split(SubSeq(s, k + 1, Len(s)), sep)

\* str.isdigit(): non-empty and every character a digit.
AllDigits(s) == s # <<>> /\ \A i \in 1..Len(s) : IsDigit(s[i])

\* int(s) of a digit string.
RECURSIVE ToInt(_)
ToInt(s) ==
    IF s = <<>> THEN 0
    ELSE 10 * ToInt(SubSeq(s, 1, Len(s) - 1)) + DigitVal(s[Len(s)])

\* str(n) for n >= 0.
RECURSIVE IntStr(_)
IntStr(n) ==
    IF n < 10 THEN <<DigitChars[n + 1]>>
    ELSE IntStr(n \div 10) \o <<DigitChars[(n % 10) + 1]>>

\* the decimal digits of n left-padded with zeros to width w.
RECURSIVE Pad(_, _)
Pad(n, w) == IF Len(IntStr(n)) >= w THEN IntStr(n) ELSE <<"0">> \o Pad(n, w - 1)

\* "[v]<major>.<minor>.<patch>" and "YYYY-MM-DD" as the strings a client sends.
VerStr(v, a, b, c) ==
    (IF v THEN <<"v">> ELSE <<>>) \o IntStr(a) \o <<".">> \o IntStr(b) \o <<".">> \o IntStr(c)

DateStr(y, m, d) == Pad(y, 4) \o <<"-">> \o Pad(m, 2) \o <<"-">> \o Pad(d, 2)

\* -------------------------------------------------------------- utils.py
\* the pattern ^(v)?\d+\.\d+\.\d+$
MatchesVersionPattern(s) ==
    LET body == IF s # <<>> /\ Head(s) = "v" THEN Tail(s) ELSE s
        parts == Split(body, ".")
    IN Len(parts) = 3 /\ \A i \in 1..3 : AllDigits(parts[i])

is_valid_version(version) ==
    IF version \in {VerStr(TRUE, 0, 0, 0), VerStr(FALSE, 0, 0, 0)} THEN FALSE
    ELSE MatchesVersionPattern(version)

IsLeap(y) == (y % 4 = 0 /\ y % 100 # 0) \/ y % 400 = 0

DaysIn(y, m) ==
    IF m = 2 THEN (IF IsLeap(y) THEN 29 ELSE 28)
    ELSE IF m \in {4, 6, 9, 11} THEN 30 ELSE 31

\* datetime.strptime(s, "%Y-%m-%d") succeeds on width 4-2-2 digit components.
StrptimeOk(y, m, d) == y >= 1 /\ m \in 1..12 /\ d >= 1 /\ d <= DaysIn(y, m)

is_valid_date(date_string) ==
    LET components == Split(date_string, "-")
    IN IF Len(components) # 3 THEN FALSE
       ELSE LET year == components[1]
                month == components[2]
                day == components[3]
            IN IF ~(AllDigits(year) /\ Len(year) = 4 /\ AllDigits(month) /\ Len(month) = 2
                    /\ AllDigits(day) /\ Len(day) = 2)
               THEN FALSE
               ELSE StrptimeOk(ToInt(year), ToInt(month), ToInt(day))

\* normalize_version returning its argument as it is
normalize_version_identity(version) == version

normalize_version(version) ==
    IF is_valid_version(version) /\ ~(version # <<>> /\ Head(version) = "v")
    THEN <<"v">> \o version
    ELSE version

\* outcome of a call: a returned value or a raised exception
Ok(v) == [kind |-> "ok", val |-> v]
Raise(exc, msg) == [kind |-> exc, val |-> msg]

\* validate_version with the format tested before the missing header
validate_version_format_first(version) ==
    IF ~(is_valid_version(version) \/ is_valid_date(version))
    THEN Raise("HTTPException", "Invalid version format")
    ELSE Ok(<<>>)

\* "not version" holds of the empty str and of None (<<"None">>, an absent header)
validate_version(version) ==
    IF version = <<>> \/ version = <<"None">> THEN Raise("HTTPException", "Version header is missing")
    ELSE IF ~(is_valid_version(version) \/ is_valid_date(version))
    THEN Raise("HTTPException", "Invalid version format")
    ELSE Ok(<<>>)

\* packaging.version.parse on a token of the version pattern: the release tuple.
ParseVersion(s) ==
    LET body == IF Head(s) = "v" THEN Tail(s) ELSE s
        parts == Split(body, ".")
    IN <<ToInt(parts[1]), ToInt(parts[2]), ToInt(parts[3])>>

\* packaging's Version.__le__ on release tuples.
VersionLeq(p, q) ==
    \/ p[1] < q[1]
    \/ p[1] = q[1] /\ p[2] < q[2]
    \/ p[1] = q[1] /\ p[2] = q[2] /\ p[3] <= q[3]

\* max() of a non-empty set of str.
StrMax(S) == CHOOSE x \in S : \A y \in S : y = x \/ StrLess(y, x)

\* find_closest_version with available_versions[0] taken without the test of
\* line 68
find_closest_version_unguarded(target_version, available_versions) ==
    IF ~is_valid_version(target_version) THEN Raise("ValueError", "Invalid version format")
    ELSE LET target == normalize_version(target_version)
             available == [i \in 1..Len(available_versions) |->
                               normalize_version(available_versions[i])]
             notAbove == {available[i] : i \in {j \in 1..Len(available) :
                               VersionLeq(ParseVersion(available[j]), ParseVersion(target))}}
         IN IF notAbove # {} THEN Ok(StrMax(notAbove))
            ELSE IF available # <<>> THEN Ok(available[1])
            ELSE Raise("IndexError", "list index out of range")

find_closest_version(target_version, available_versions) ==
    IF ~is_valid_version(target_version) THEN Raise("ValueError", "Invalid version format")
    ELSE LET target == normalize_version(target_version)
             available == [i \in 1..Len(available_versions) |->
                               normalize_version(available_versions[i])]
             notAbove == {available[i] : i \in {j \in 1..Len(available) :
                               VersionLeq(ParseVersion(available[j]), ParseVersion(target))}}
         IN IF notAbove # {} THEN Ok(StrMax(notAbove))
            ELSE IF available # <<>> THEN Ok(available[1])
            ELSE Raise("ValueError", "No available versions found")

\* sorted() of a list of str (insertion into the sorted rest; stable).
RECURSIVE Insert(_, _)
Insert(x, s) ==
    IF s = <<>> THEN <<x>>
    ELSE IF StrLess(x, Head(s)) THEN <<x>> \o s
    ELSE <<Head(s)>> \o Insert(x, Tail(s))

RECURSIVE Sorted(_)
Sorted(s) == IF s = <<>> THEN <<>> ELSE Insert(s[Len(s)], Sorted(SubSeq(s, 1, Len(s) - 1)))

\* bisect.bisect_left(a, x): 0-based insertion point, by halving [lo, hi).
RECURSIVE BisectLeft(_, _, _, _)
BisectLeft(a, x, lo, hi) ==
    IF lo >= hi THEN lo
    ELSE LET mid == (lo + hi) \div 2
         IN IF StrLess(a[mid + 1], x) THEN BisectLeft(a, x, mid + 1, hi)
            ELSE BisectLeft(a, x, lo, mid)

\* find_closest_date with the element at the insertion point (the following date)
\* taken between two candidates.
find_closest_date_ceiling(target_date, available_dates) ==
    IF ~is_valid_date(target_date) THEN Raise("ValueError", "Invalid date format")
    ELSE IF \E i \in 1..Len(available_dates) : available_dates[i] = target_date
    THEN Ok(target_date)
    ELSE LET available == Sorted(available_dates)
             index == BisectLeft(available, target_date, 0, Len(available))
         IN IF index = 0
            THEN (IF available = <<>> THEN Raise("IndexError", "list index out of range")
                  ELSE Ok(available[1]))
            ELSE IF index = Len(available) THEN Ok(available[Len(available)])
            ELSE Ok(available[index + 1])

\* find_closest_date without the test of lines 74-75
find_closest_date_unchecked(target_date, available_dates) ==
    IF \E i \in 1..Len(available_dates) : available_dates[i] = target_date
    THEN Ok(target_date)
    ELSE LET available == Sorted(available_dates)
             index == BisectLeft(available, target_date, 0, Len(available))
         IN IF index = 0
            THEN (IF available = <<>> THEN Raise("IndexError", "list index out of range")
                  ELSE Ok(available[1]))
            ELSE IF index = Len(available) THEN Ok(available[Len(available)])
            ELSE Ok(available[index])

find_closest_date(target_date, available_dates) ==
    IF ~is_valid_date(target_date) THEN Raise("ValueError", "Invalid date format")
    ELSE IF \E i \in 1..Len(available_dates) : available_dates[i] = target_date
    THEN Ok(target_date)
    ELSE LET available == Sorted(available_dates)
             index == BisectLeft(available, target_date, 0, Len(available))
         IN IF index = 0
            THEN (IF available = <<>> THEN Raise("IndexError", "list index out of range")
                  ELSE Ok(available[1]))
            ELSE IF index = Len(available) THEN Ok(available[Len(available)])
            ELSE Ok(available[index])

\* ------------------------------------------------------------ token sets
Releases == {<<1, 0, 0>>, <<1, 9, 0>>, <<1, 10, 0>>, <<2, 0, 0>>}

VersionTokens == {VerStr(v, r[1], r[2], r[3]) : v \in BOOLEAN, r \in Releases}

DateTokens == {DateStr(2024, 4, 10), DateStr(2024, 4, 15), DateStr(2024, 4, 20),
               DateStr(2023, 12, 31), DateStr(2024, 2, 29)}

InvalidTokens == {<<>>, VerStr(TRUE, 0, 0, 0), VerStr(FALSE, 0, 0, 0),
                  <<"v", "2", ".">>, <<"x">>,
                  <<"2", "0", "2", "4", "-", "4", "-", "2", "9">>,
                  DateStr(2024, 2, 30), DateStr(2023, 2, 29), DateStr(2024, 13, 1)}

\* candidates of every kind, for calls whose target is refused
MixedTokens == {VerStr(TRUE, 1, 9, 0), DateStr(2024, 4, 10), <<"x">>}

RECURSIVE SeqsUpTo(_, _)
SeqsUpTo(S, n) ==
    IF n = 0 THEN {<<>>}
    ELSE LET shorter == SeqsUpTo(S, n - 1)
         IN shorter \cup {Append(s, x) : s \in {t \in shorter : Len(t) = n - 1}, x \in S}

\* ------------------------------------------------------------------ state
VARIABLES
    call,                 \* a resolver call under test: [fn, target, available]
    ret,                  \* what the call returned or raised; NoRet before it ran
    versioned_routers,    \* router.versioned_routers: key -> list of routes
    unversioned_routers,  \* router.unversioned_routers
    own_routes,           \* the list APIRouter.__init__ bound to router.routes
    routes,               \* the list router.routes (app.routes) is bound to now
    group_cache,          \* lru_cache of group_and_sort_routes, keyed by the router
    swaggers,             \* app.swaggers: document key -> paths of the document
    skipped_routes,       \* the middleware's path -> skip map, built with the stack
    regs,                 \* include_router calls made after construction
    req                   \* the requests in flight, each with its position

tableVars == <<versioned_routers, unversioned_routers, own_routes, swaggers, regs>>
vars == <<call, ret, versioned_routers, unversioned_routers, own_routes, routes,
          group_cache, swaggers, skipped_routes, regs, req>>

NoRet == [kind |-> "none", val |-> <<>>]
NoCall == [fn |-> "none", target |-> <<>>, available |-> <<>>]

\* Python's None where a str is optional
None == <<"None">>

\* the document key "unversioned"
Unversioned == <<"u", "n", "v", "e", "r", "s", "i", "o", "n", "e", "d">>

\* A list object is named by a reference; two names of one list alias.
OwnRef == [list |-> "own", key |-> <<>>]
UnversionedRef == [list |-> "unversioned", key |-> <<>>]
VersionedRef(k) == [list |-> "versioned", key |-> k]
NoRef == [list |-> "none", key |-> <<>>]

Heap == [own |-> own_routes, unversioned |-> unversioned_routers,
         versioned |-> versioned_routers]

ListOf(H, ref) ==
    IF ref.list = "own" THEN H.own
    ELSE IF ref.list = "unversioned" THEN H.unversioned
    ELSE H.versioned[ref.key]

\* list.extend / repeated list.append on the list a reference names
Extend(H, ref, items) ==
    IF ref.list = "own" THEN [H EXCEPT !.own = @ \o items]
    ELSE IF ref.list = "unversioned" THEN [H EXCEPT !.unversioned = @ \o items]
    ELSE [H EXCEPT !.versioned[ref.key] = @ \o items]

\* versioned_routers[key] = [] in place of setdefault: a new list at every call
SetDefaultOverwriting(H, key) == [H EXCEPT !.versioned = (key :> <<>>) @@ H.versioned]

\* dict.setdefault(key, [])
SetDefault(H, key) ==
    IF key \in DOMAIN H.versioned THEN H
    ELSE [H EXCEPT !.versioned = (key :> <<>>) @@ H.versioned]

\* a route: its path, include_in_schema, and the default of its version dependency
Route(p, shown, v) == [path |-> p, in_schema |-> shown, version |-> v]

DefaultPaths == <<"/openapi.json", "/docs", "/redoc">>

DefaultRoutes == [i \in 1..Len(DefaultPaths) |-> Route(DefaultPaths[i], FALSE, None)]

\* -------------------------------------------------------------- routers.py
\* the keys of a set in ascending str order: sorted(d.items()) of unique keys
RECURSIVE SortedKeys(_)
SortedKeys(S) ==
    IF S = {} THEN <<>>
    ELSE LET m == CHOOSE x \in S : \A y \in S : y = x \/ StrLess(x, y)
         IN <<m>> \o SortedKeys(S \ {m})

\* the body of group_and_sort_routes, on the table as it is now
group_and_sort_body(table) ==
    IF \E k \in DOMAIN table : ~is_valid_date(k) /\ ~is_valid_version(k)
    THEN Raise("ValueError", "neither a valid date nor a valid version")
    ELSE Ok([sorted_date_routes |-> SortedKeys({k \in DOMAIN table : is_valid_date(k)}),
             sorted_version_routes |->
                 SortedKeys({k \in DOMAIN table : ~is_valid_date(k) /\ is_valid_version(k)})])

\* group_and_sort_routes under lru_cache(maxsize=None): the key is the router,
\* whose hash and identity never change, so a stored result is returned as is.
group_and_sort_routes(cache, table) ==
    IF cache.kind = "ok" THEN cache ELSE group_and_sort_body(table)

\* the cache after a call: a returned value is stored, an exception is not
Stored(cache, result) == IF result.kind = "ok" THEN result ELSE cache

CacheAfter(cache, table) ==
    IF cache.kind = "ok" THEN cache ELSE Stored(cache, group_and_sort_body(table))

\* lines 131-141: the resolver of the header's kind over the grouped keys
ClosestVersion(header_version, is_valid_date_version, grouped) ==
    IF is_valid_date_version
    THEN find_closest_date(header_version, grouped.sorted_date_routes)
    ELSE find_closest_version(header_version, grouped.sorted_version_routes)

\* line 149: self.versioned_routers[closest_version]
PickedRoutes(closest_version, resolver, table) ==
    IF closest_version.kind # "ok"
    THEN [out |-> closest_version, resolver |-> resolver, closest |-> None]
    ELSE [out |-> IF closest_version.val \in DOMAIN table
                  THEN Ok(VersionedRef(closest_version.val))
                  ELSE Raise("KeyError", closest_version.val),
          resolver |-> resolver, closest |-> closest_version.val]

\* _pick_version given what group_and_sort_routes returned: [out |-> the routes
\* returned or the exception, resolver |-> the resolver called, closest |-> what
\* it returned]
PickWith(header_version, grouped, table) ==
    IF grouped.kind # "ok" THEN [out |-> grouped, resolver |-> "", closest |-> None]
    ELSE PickedRoutes(
             ClosestVersion(header_version, is_valid_date(header_version), grouped.val),
             IF is_valid_date(header_version) THEN "find_closest_date"
             ELSE "find_closest_version",
             table)

_pick_version(header_version, cache, table) ==
    PickWith(header_version, group_and_sort_routes(cache, table), table)

\* dict.get(key, default) on the evaluated default
GetOr(table, key, picked) ==
    IF picked.out.kind # "ok" THEN picked
    ELSE IF key \in DOMAIN table THEN [picked EXCEPT !.out = Ok(VersionedRef(key))]
    ELSE picked

\* _get_routes_for_version without the early return for an empty header
_get_routes_for_version_unguarded(header_version, cache, table) ==
    GetOr(table, header_version, _pick_version(header_version, cache, table))

\* _get_routes_for_version: dict.get(key, default) evaluates its default, the call
\* of _pick_version, before the lookup.
_get_routes_for_version(header_version, cache, table) ==
    IF header_version = <<>>
    THEN [out |-> Ok(UnversionedRef), resolver |-> "", closest |-> None]
    ELSE GetOr(table, header_version, _pick_version(header_version, cache, table))

\* ------------------------------------------------------------ handlers.py
\* get_openapi(routes)["paths"]: the paths of the routes shown in the schema
RECURSIVE OpenapiPaths(_)
OpenapiPaths(rs) ==
    IF rs = <<>> THEN <<>>
    ELSE (IF Head(rs).in_schema THEN <<Head(rs).path>> ELSE <<>>) \o OpenapiPaths(Tail(rs))

enrich_swagger(docs, H) ==
    LET withUnversioned ==
            IF OpenapiPaths(H.unversioned) # <<>>
            THEN (Unversioned :> OpenapiPaths(H.unversioned)) @@ docs
            ELSE docs
        fresh == DOMAIN H.versioned \ DOMAIN withUnversioned
    IN [k \in fresh |-> OpenapiPaths(H.versioned[k])] @@ withUnversioned

\* include_router with a version: what it leaves on the heap
IncludeVersioned(H, ref, router, version) ==
    LET copies == [i \in 1..Len(router) |-> Route(router[i], TRUE, version)]
        H1 == Extend(H, ref, copies)
        L == ListOf(H1, ref)
        added_routes == SubSeq(L, Len(L) - Len(router) + 1, Len(L))
        key == normalize_version(version)
    IN IF added_routes = <<>> THEN H1
       ELSE Extend(SetDefault(H1, key), VersionedRef(key), added_routes)

\* include_router without a version
IncludeUnversioned(H, ref, router) ==
    LET copies == [i \in 1..Len(router) |-> Route(router[i], FALSE, None)]
        originals == [i \in 1..Len(router) |-> Route(router[i], TRUE, None)]
    IN Extend(Extend(H, ref, copies), UnversionedRef, originals)

WithSwagger(docs, H) == [heap |-> H, docs |-> enrich_swagger(docs, H)]

\* include_router without the call of validate_version
include_router_unvalidated(H, docs, ref, router, version) ==
    IF version = None THEN WithSwagger(docs, IncludeUnversioned(H, ref, router))
    ELSE WithSwagger(docs, IncludeVersioned(H, ref, router, version))

\* HeaderBasedVersionHandler.include_router: the heap and the documents it leaves;
\* validate_version raising leaves both as they were.
include_router(H, docs, ref, router, version) ==
    IF version = None THEN WithSwagger(docs, IncludeUnversioned(H, ref, router))
    ELSE IF validate_version(version).kind # "ok" THEN [heap |-> H, docs |-> docs]
    ELSE WithSwagger(docs, IncludeVersioned(H, ref, router, version))

\* ----------------------------------------------------------- middleware.py
\* _build_skipped_routes: a later route of the same path overwrites an earlier one
_build_skipped_routes(rs) ==
    {rs[i].path : i \in {j \in 1..Len(rs) :
        ~rs[j].in_schema /\ \A k \in (j + 1)..Len(rs) : rs[k].path # rs[j].path}}

_should_skip_validation(skipped, path) == path \in skipped

\* ------------------------------------------------------------- input sets
RouteGroups == {<<"/heroes">>}

RegisterVersions == {None, <<>>, VerStr(TRUE, 1, 9, 0), VerStr(FALSE, 1, 10, 0),
                     DateStr(2024, 4, 10)}

\* <<path, version header>> of a request; <<>> is no header
RequestInputs ==
    ({"/docs"} \X {<<>>, <<"x">>})
    \cup ({"/heroes"} \X {<<>>, <<"x">>, VerStr(TRUE, 1, 9, 0), VerStr(FALSE, 1, 10, 5),
                          DateStr(2024, 4, 10), DateStr(2024, 4, 15)})

Requests == 1..NumRequests

NoGrouped == [kind |-> "none", val |-> <<>>]

IdleRequest == [pc |-> "idle", path |-> "", header |-> <<>>, sel |-> NoRef,
                used |-> NoRef, status |-> "", error |-> "", resolver |-> "",
                returned |-> None, grouped |-> NoGrouped]

\* ------------------------------------------------------------------- Init
\* BaseVersionHandler.__init__: the three documentation routes are included
\* without a version; no document is generated for them (none is in the schema).
TableInit ==
    /\ versioned_routers = <<>>
    /\ unversioned_routers = DefaultRoutes
    /\ own_routes = DefaultRoutes
    /\ routes = OwnRef
    /\ group_cache = NoGrouped
    /\ swaggers = <<>>
    /\ skipped_routes = [built |-> FALSE, skip |-> {}]
    /\ regs = 0
    /\ req = [i \in Requests |-> IdleRequest]

Init == call = NoCall /\ ret = NoRet /\ TableInit

\* ------------------------------------------------------------ registration
\* HeaderBasedVersionHandler.include_router(router, version=version)
Included(after) ==
    /\ versioned_routers' = after.heap.versioned
    /\ unversioned_routers' = after.heap.unversioned
    /\ own_routes' = after.heap.own
    /\ swaggers' = after.docs

IncludeRouter(router, version) ==
    /\ regs < MaxRegs
    /\ regs' = regs + 1
    /\ Included(include_router(Heap, swaggers, routes, router, version))
    /\ UNCHANGED <<call, ret, routes, group_cache, skipped_routes, req>>

\* ---------------------------------------------------------------- requests
\* A request arrives: the middleware stack is built on the first one, then
\* VersionValidationMiddleware.dispatch lets it through or answers 422.
MiddlewareDispatch(i, path, header) ==
    /\ req[i].pc = "idle"
    /\ \A j \in Requests : j < i => req[j].pc # "idle"
    /\ LET skipped == IF skipped_routes.built THEN skipped_routes.skip
                      ELSE _build_skipped_routes(ListOf(Heap, routes))
           rejected == /\ ~_should_skip_validation(skipped, path)
                       /\ validate_version(header).kind # "ok"
       IN /\ skipped_routes' = [built |-> TRUE, skip |-> skipped]
          /\ req' = [req EXCEPT ![i] =
                IF rejected
                THEN [IdleRequest EXCEPT !.pc = "done", !.path = path, !.header = header,
                                         !.status = "422", !.error = "HTTPException"]
                ELSE [IdleRequest EXCEPT !.pc = "router", !.path = path,
                                         !.header = header]]
    /\ UNCHANGED <<call, ret, routes, group_cache, tableVars>>

\* lines 73-74 with an exception of the selection answered by the unversioned
\* route set instead of ending the request
AfterSelectFallback(r, got, grouped) ==
    [r EXCEPT !.pc = "selected",
              !.sel = IF got.out.kind = "ok" THEN got.out.val ELSE UnversionedRef,
              !.resolver = got.resolver,
              !.returned = got.closest,
              !.grouped = grouped]

\* the request after lines 73-74, given what the selection returned or raised
AfterSelect(r, got, grouped) ==
    [r EXCEPT !.pc = IF got.out.kind = "ok" THEN "selected" ELSE "done",
              !.sel = IF got.out.kind = "ok" THEN got.out.val ELSE NoRef,
              !.status = IF got.out.kind = "ok" THEN "" ELSE "500",
              !.error = IF got.out.kind = "ok" THEN "" ELSE got.out.kind,
              !.resolver = got.resolver,
              !.returned = got.closest,
              !.grouped = grouped]

\* the table after line 107 written with dict.setdefault in place of dict.get:
\* the bucket found for an unregistered header is stored under the header
MemoizedTable(table, header, got) ==
    IF header # <<>> /\ got.out.kind = "ok" /\ header \notin DOMAIN table
    THEN (header :> table[got.out.val.key]) @@ table
    ELSE table

\* lines 73-74 with the selection stored in the table
RouterSelectMemoizing(i) ==
    /\ req[i].pc = "router"
    /\ group_cache' = IF req[i].header # <<>>
                      THEN CacheAfter(group_cache, versioned_routers)
                      ELSE group_cache
    /\ versioned_routers' =
          MemoizedTable(versioned_routers, req[i].header,
                        _get_routes_for_version(req[i].header, group_cache, versioned_routers))
    /\ req' = [req EXCEPT ![i] =
          AfterSelect(req[i],
                      _get_routes_for_version(req[i].header, group_cache, versioned_routers),
                      IF req[i].header # <<>>
                      THEN group_and_sort_routes(group_cache, versioned_routers)
                      ELSE NoGrouped)]
    /\ UNCHANGED <<call, ret, routes, skipped_routes, unversioned_routers, own_routes,
                   swaggers, regs>>

\* VersionAwareAPIRouter.__call__, lines 73-74: the header is read and the route
\* set selected; an exception of the selection ends the request (500).
RouterSelect(i) ==
    /\ req[i].pc = "router"
    /\ group_cache' = IF req[i].header # <<>>
                      THEN CacheAfter(group_cache, versioned_routers)
                      ELSE group_cache
    /\ req' = [req EXCEPT ![i] =
          AfterSelect(req[i],
                      _get_routes_for_version(req[i].header, group_cache, versioned_routers),
                      IF req[i].header # <<>>
                      THEN group_and_sort_routes(group_cache, versioned_routers)
                      ELSE NoGrouped)]
    /\ UNCHANGED <<call, ret, routes, skipped_routes, tableVars>>

\* line 75: self.routes = routes
RouterActivate(i) ==
    /\ req[i].pc = "selected"
    /\ routes' = req[i].sel
    /\ req' = [req EXCEPT ![i].pc = "activated", ![i].grouped = NoGrouped]
    /\ UNCHANGED <<call, ret, group_cache, skipped_routes, tableVars>>

\* line 76: the request is matched against router.routes and handled; the
\* documentation pages without a version render the dashboard, which calls
\* group_and_sort_routes.
RouterHandle(i) ==
    /\ req[i].pc = "activated"
    /\ LET r == req[i]
           active == ListOf(Heap, routes)
           matched == \E k \in 1..Len(active) : active[k].path = r.path
           dashboard == matched /\ r.path \in {"/docs", "/redoc"}
       IN /\ group_cache' = IF dashboard THEN CacheAfter(group_cache, versioned_routers)
                            ELSE group_cache
          /\ req' = [req EXCEPT ![i] =
                [r EXCEPT !.pc = "done",
                          !.used = routes,
                          !.status = IF matched THEN "200" ELSE "404",
                          !.grouped = IF dashboard
                                      THEN group_and_sort_routes(group_cache, versioned_routers)
                                      ELSE NoGrouped]]
    /\ UNCHANGED <<call, ret, routes, skipped_routes, tableVars>>

Next ==
    \/ \E router \in RouteGroups, version \in RegisterVersions : IncludeRouter(router, version)
    \/ \E i \in Requests, input \in RequestInputs :
           MiddlewareDispatch(i, input[1], input[2])
    \/ \E i \in Requests : RouterSelect(i)
    \/ \E i \in Requests : RouterActivate(i)
    \/ \E i \in Requests : RouterHandle(i)

Spec == Init /\ [][Next]_vars

\* --------------------------------------- serving a fully registered table
\* Registration completes before the first request: the table is built by a
\* sequence of include_router calls on the constructed application, then only
\* requests run.
ConstructedHeap == [own |-> DefaultRoutes, unversioned |-> DefaultRoutes, versioned |-> <<>>]

RECURSIVE RegisterAll(_, _)
RegisterAll(st, versions) ==
    IF versions = <<>> THEN st
    ELSE RegisterAll(include_router(st.heap, st.docs, OwnRef, <<"/heroes">>, Head(versions)),
                     Tail(versions))

AcceptedVersions == {v \in RegisterVersions : v = None \/ validate_version(v).kind = "ok"}

Registered(st, n) ==
    /\ versioned_routers = st.heap.versioned
    /\ unversioned_routers = st.heap.unversioned
    /\ own_routes = st.heap.own
    /\ swaggers = st.docs
    /\ regs = n

InitServing ==
    /\ call = NoCall
    /\ ret = NoRet
    /\ \E versions \in SeqsUpTo(AcceptedVersions, MaxRegs) :
           Registered(RegisterAll([heap |-> ConstructedHeap, docs |-> <<>>], versions),
                      Len(versions))
    /\ routes = OwnRef
    /\ group_cache = NoGrouped
    /\ skipped_routes = [built |-> FALSE, skip |-> {}]
    /\ req = [i \in Requests |-> IdleRequest]

NextServing ==
    \/ \E i \in Requests, input \in RequestInputs :
           MiddlewareDispatch(i, input[1], input[2])
    \/ \E i \in Requests : RouterSelect(i)
    \/ \E i \in Requests : RouterActivate(i)
    \/ \E i \in Requests : RouterHandle(i)

SpecServing == InitServing /\ [][NextServing]_vars

\* ------------------------------------------ the resolvers as pure functions
InitResolve ==
    /\ \/ \E t \in VersionTokens \cup InvalidTokens, av \in SeqsUpTo(VersionTokens, MaxAvail) :
              call = [fn |-> "find_closest_version", target |-> t, available |-> av]
       \/ \E t \in DateTokens \cup InvalidTokens, av \in SeqsUpTo(DateTokens, MaxAvail) :
              call = [fn |-> "find_closest_date", target |-> t, available |-> av]
       \/ \E t \in DateTokens \cup InvalidTokens, av \in SeqsUpTo(MixedTokens, MaxAvail) :
              call = [fn |-> "find_closest_version", target |-> t, available |-> av]
       \/ \E t \in VersionTokens \cup InvalidTokens, av \in SeqsUpTo(MixedTokens, MaxAvail) :
              call = [fn |-> "find_closest_date", target |-> t, available |-> av]
       \/ \E t \in VersionTokens \cup DateTokens \cup InvalidTokens \cup {None} :
              call = [fn |-> "validate_version", target |-> t, available |-> <<>>]
    /\ ret = NoRet
    /\ TableInit

CallFindClosestVersion ==
    /\ ret = NoRet
    /\ call.fn = "find_closest_version"
    /\ ret' = find_closest_version(call.target, call.available)
    /\ UNCHANGED <<call, routes, group_cache, skipped_routes, req, tableVars>>

CallFindClosestDate ==
    /\ ret = NoRet
    /\ call.fn = "find_closest_date"
    /\ ret' = find_closest_date(call.target, call.available)
    /\ UNCHANGED <<call, routes, group_cache, skipped_routes, req, tableVars>>

CallValidateVersion ==
    /\ ret = NoRet
    /\ call.fn = "validate_version"
    /\ ret' = validate_version(call.target)
    /\ UNCHANGED <<call, routes, group_cache, skipped_routes, req, tableVars>>

NextResolve == CallFindClosestVersion \/ CallFindClosestDate \/ CallValidateVersion

SpecResolve == InitResolve /\ [][NextResolve]_vars

\* ------------------------------------------- registration and its documents
\* Registration as the application makes it while it is configured, before any
\* request is served: each include_router call is recorded with its arguments
\* and with what it returned or raised, and the documents are looked up.
RegisterGroups == {<<>>, <<"/heroes">>, <<"/villains">>}

RegisterTokens == {None, <<>>, <<"x">>,
                   VerStr(TRUE, 1, 9, 0), VerStr(FALSE, 1, 9, 0), VerStr(FALSE, 1, 10, 0),
                   VerStr(TRUE, 0, 0, 0), VerStr(FALSE, 0, 0, 0),
                   DateStr(2024, 4, 10), DateStr(2024, 4, 15), DateStr(2024, 2, 30)}

\* the ?version= query parameter of a document request; None is no parameter
LookupTokens == {None, <<>>, <<"x">>, Unversioned,
                 VerStr(TRUE, 1, 9, 0), VerStr(FALSE, 1, 9, 0), VerStr(TRUE, 1, 10, 0),
                 VerStr(FALSE, 1, 10, 0), VerStr(TRUE, 1, 10, 5), VerStr(TRUE, 2, 0, 0),
                 DateStr(2024, 4, 10), DateStr(2024, 4, 12), DateStr(2024, 4, 15)}

\* what include_router returns (None) or raises (validate_version's exception)
include_router_result(version) ==
    IF version = None THEN Ok(None)
    ELSE IF validate_version(version).kind # "ok" THEN validate_version(version)
    ELSE Ok(None)

\* openapi_jsons looking the document up under the normalized token
openapi_jsons_normalizing(docs, version) ==
    IF normalize_version(version) \in DOMAIN docs THEN Ok(docs[normalize_version(version)])
    ELSE Raise("HTTPException", "404")

\* BaseVersionHandler.openapi_jsons: swaggers.get(version), 404 when absent
openapi_jsons(docs, version) ==
    IF version \in DOMAIN docs THEN Ok(docs[version])
    ELSE Raise("HTTPException", "404")

InitRegister == call = NoCall /\ ret = NoRet /\ TableInit

\* HeaderBasedVersionHandler.include_router(router, version=version), recorded
IncludeRouterCall(router, version) ==
    /\ regs < MaxRegs
    /\ regs' = regs + 1
    /\ Included(include_router(Heap, swaggers, routes, router, version))
    /\ call' = [fn |-> "include_router", target |-> version, available |-> router]
    /\ ret' = include_router_result(version)
    /\ UNCHANGED <<routes, group_cache, skipped_routes, req>>

\* GET /openapi.json?version=<version>
OpenapiJsons(version) ==
    /\ call' = [fn |-> "openapi_jsons", target |-> version, available |-> <<>>]
    /\ ret' = openapi_jsons(swaggers, version)
    /\ UNCHANGED <<routes, group_cache, skipped_routes, req, tableVars>>

NextRegister ==
    \/ \E router \in RegisterGroups, version \in RegisterTokens :
           IncludeRouterCall(router, version)
    \/ \E version \in LookupTokens : OpenapiJsons(version)

SpecRegister == InitRegister /\ [][NextRegister]_vars

\* ----------------------------------------------------- resolver properties
Range(s) == {s[i] : i \in 1..Len(s)}

\* semantic-version precedence of two tokens: numeric, component by component
PrecLeq(a, b) == VersionLeq(ParseVersion(a), ParseVersion(b))
PrecLess(a, b) == PrecLeq(a, b) /\ ~PrecLeq(b, a)

\* calendar order of two valid date tokens, by (year, month, day) as numbers
DateNum(s) ==
    LET c == Split(s, "-") IN ToInt(c[1]) * 10000 + ToInt(c[2]) * 100 + ToInt(c[3])
DateBefore(a, b) == DateNum(a) < DateNum(b)

VersionCallDone == call.fn = "find_closest_version" /\ ret # NoRet
DateCallDone == call.fn = "find_closest_date" /\ ret # NoRet

\* C3: for a valid semantic-version target and a candidate list with at least
\* one candidate whose precedence does not exceed the target's,
\* find_closest_version returns the (normalized) candidate of greatest numeric
\* precedence among those not exceeding the target.
C3_ReturnsGreatestNotExceeding ==
    (/\ VersionCallDone
     /\ is_valid_version(call.target)
     /\ \E c \in Range(call.available) : PrecLeq(c, call.target))
    => /\ ret.kind = "ok"
       /\ \E c \in Range(call.available) : normalize_version(c) = ret.val
       /\ PrecLeq(ret.val, call.target)
       /\ \A c \in Range(call.available) : PrecLeq(c, call.target) => PrecLeq(c, ret.val)

\* C4: for a valid semantic-version target whose precedence is below that of
\* every candidate of a non-empty list, find_closest_version returns the
\* smallest candidate by semantic-version precedence.
C4_BelowAllReturnsSmallest ==
    (/\ VersionCallDone
     /\ is_valid_version(call.target)
     /\ call.available # <<>>
     /\ \A c \in Range(call.available) : PrecLess(call.target, c))
    => /\ ret.kind = "ok"
       /\ \E c \in Range(call.available) : normalize_version(c) = ret.val
       /\ \A c \in Range(call.available) : PrecLeq(ret.val, c)

\* C5: for a valid date target and a non-empty candidate list in any order,
\* find_closest_date returns the target when it is a candidate; otherwise the
\* earliest candidate when the target precedes all, the latest when it follows
\* all, and in between the latest candidate earlier than the target.
C5_ResolveDateFloor ==
    (DateCallDone /\ is_valid_date(call.target) /\ call.available # <<>>)
    => LET t == call.target
           C == Range(call.available)
       IN /\ ret.kind = "ok"
          /\ ret.val \in C
          /\ IF t \in C THEN ret.val = t
             ELSE IF \A c \in C : DateBefore(t, c)
             THEN \A c \in C : ~DateBefore(c, ret.val)
             ELSE IF \A c \in C : DateBefore(c, t)
             THEN \A c \in C : ~DateBefore(ret.val, c)
             ELSE /\ DateBefore(ret.val, t)
                  /\ \A c \in C : DateBefore(c, t) => ~DateBefore(ret.val, c)

\* a date call answered between two candidates that were given latest first
C5_Witness ==
    /\ DateCallDone
    /\ is_valid_date(call.target)
    /\ Len(call.available) >= 2
    /\ DateBefore(call.available[2], call.target)
    /\ DateBefore(call.target, call.available[1])
    /\ ret = Ok(call.available[2])

\* ------------------------------------------------ table and dispatch properties
ValidToken(t) == is_valid_version(t) \/ is_valid_date(t)

\* request i has run lines 73-74 (the selection returned or raised)
SelectDone(i) ==
    \/ req[i].pc \in {"selected", "activated"}
    \/ req[i].pc = "done" /\ req[i].status # "422"

\* the keys of a grouped index
Keys(g) == Range(g.val.sorted_date_routes) \cup Range(g.val.sorted_version_routes)

\* the registered keys of the kind of a valid token
KindKeys(t) ==
    IF is_valid_date(t) THEN {k \in DOMAIN versioned_routers : is_valid_date(k)}
    ELSE {k \in DOMAIN versioned_routers : ~is_valid_date(k) /\ is_valid_version(k)}

\* k does not exceed t: calendar order for dates, numeric precedence for versions
NotAbove(k, t) == IF is_valid_date(t) THEN ~DateBefore(t, k) ELSE PrecLeq(k, t)

\* the registered keys that are a floor of t: not above t, and no registered key
\* of the kind lies between
Floors(t) ==
    {k \in KindKeys(t) :
        /\ NotAbove(k, t)
        /\ \A k2 \in KindKeys(t) : NotAbove(k2, t) => NotAbove(k2, k)}

\* C1: every result of group_and_sort_routes contains exactly the keys in the
\* table at the time of the call, also for a key registered after an earlier
\* call (the memoized index is never served stale).
C1_GroupedIndexNeverStale ==
    [][\A i \in Requests :
          (req'[i] # req[i] /\ req'[i].grouped # NoGrouped)
          => /\ req'[i].grouped.kind = "ok"
             /\ Keys(req'[i].grouped) = DOMAIN versioned_routers']_vars

\* C2: with requests of different headers in flight on a fully registered table,
\* each request is handled with the route set selected for its own header.
C2_HandledWithOwnSelection ==
    \A i \in Requests :
        (req[i].pc = "done" /\ req[i].used # NoRef) => req[i].used = req[i].sel

\* C6: a valid header token that is not a registered key is served the route set
\* of its nearest registered floor token of the same kind.
C6_UnregisteredTokenServedByFloor ==
    \A i \in Requests :
        (/\ SelectDone(i)
         /\ ValidToken(req[i].header)
         /\ req[i].header \notin DOMAIN versioned_routers
         /\ Floors(req[i].header) # {})
        => /\ req[i].status # "500"
           /\ \E k \in Floors(req[i].header) : req[i].sel = VersionedRef(k)

\* C7: a header equal to a registered key is served that key's route set, the
\* selection succeeding without closest-match resolution, in every state of the
\* table (also for keys registered after the grouped index was first computed).
C7_ExactKeyFastPath ==
    [][\A i \in Requests :
          (/\ req[i].pc = "router"
           /\ req'[i].pc # "router"
           /\ req[i].header \in DOMAIN versioned_routers)
          => /\ req'[i].pc = "selected"
             /\ req'[i].sel = VersionedRef(req[i].header)
             /\ req'[i].resolver = ""]_vars

\* C8: a request with an empty or absent version header is served the
\* unversioned route set, whatever is registered and whatever was dispatched.
C8_EmptyHeaderUnversioned ==
    \A i \in Requests :
        (SelectDone(i) /\ req[i].header = <<>>)
        => /\ req[i].sel = UnversionedRef
           /\ req[i].status # "500"
           /\ req[i].resolver = ""

\* an empty-header request selected the unversioned set while an earlier request
\* left a version bucket active and a later registration added a key
C8_Witness ==
    \E i \in Requests :
        /\ req[i].pc = "selected"
        /\ req[i].header = <<>>
        /\ req[i].sel = UnversionedRef
        /\ routes.list = "versioned"
        /\ Cardinality(DOMAIN versioned_routers) >= 2

\* C9: a valid header whose kind has no registered bucket (a date with only
\* versions registered, a version with only dates) is not failed: the dispatch
\* falls back to a default route set.
C9_MissingKindFallsBack ==
    \A i \in Requests :
        (/\ SelectDone(i)
         /\ ValidToken(req[i].header)
         /\ DOMAIN versioned_routers # {}
         /\ KindKeys(req[i].header) = {})
        => /\ req[i].status # "500"
           /\ req[i].sel # NoRef

\* C10: no request with a missing or malformed version token reaches
\* closest-match resolution, on any request path.
C10_InvalidNeverReachesResolver ==
    \A i \in Requests :
        (req[i].pc # "idle" /\ ~ValidToken(req[i].header)) => req[i].resolver = ""

\* C11: a non-empty header that is neither a valid semantic version nor a valid
\* date makes the selection raise an error: the request ends without a selected
\* route set, and the active route set and the table stay as they were.
C11_InvalidHeaderFailsSafely ==
    [][\A i \in Requests :
          (/\ req[i].pc = "router"
           /\ req'[i].pc # "router"
           /\ req[i].header # <<>>
           /\ ~ValidToken(req[i].header))
          => /\ req'[i].pc = "done"
             /\ req'[i].error = "ValueError"
             /\ req'[i].sel = NoRef
             /\ req'[i].used = NoRef
             /\ routes' = routes
             /\ UNCHANGED tableVars]_vars

\* a malformed header on a documentation path ended in the selection's error
\* while the bucket activated by an earlier request stayed the active route set
C11_Witness ==
    \E i \in Requests :
        /\ req[i].pc = "done"
        /\ req[i].header = <<"x">>
        /\ req[i].error = "ValueError"
        /\ req[i].sel = NoRef
        /\ routes.list = "versioned"
        /\ DOMAIN versioned_routers # {}

\* C12: no step of a dispatch (validation, selection, activation, handling)
\* changes the version table: the key set, the route list of every bucket and
\* the unversioned route list are after the step what they were before it.
C12_DispatchLeavesTable ==
    [][(req' # req)
       => /\ versioned_routers' = versioned_routers
          /\ unversioned_routers' = unversioned_routers]_vars

\* a request with an unregistered header was handled with the bucket of a
\* registered key and left that bucket the active route set
C12_Witness ==
    \E i \in Requests :
        /\ req[i].pc = "done"
        /\ req[i].status = "200"
        /\ req[i].header \notin DOMAIN versioned_routers
        /\ req[i].used.list = "versioned"
        /\ routes = req[i].used

\* ------------------------------------------------- registration properties
\* the last step was include_router(router, version = target), just recorded
Registering == call'.fn = "include_router" /\ regs' = regs + 1

\* the copies of a route group that include_router adds under a version
Copies(router, version) == [i \in 1..Len(router) |-> Route(router[i], TRUE, version)]

\* the bucket of a key, the empty list when there is none
Bucket(table, k) == IF k \in DOMAIN table THEN table[k] ELSE <<>>

\* C13: in every state reachable through registration, every key of the version
\* table is either a valid semantic version in its v-prefixed form or a valid
\* calendar date, never both and never neither, so group_and_sort_routes does
\* not raise its "neither a valid date nor a valid version" error.
C13_KeysClassified ==
    /\ \A k \in DOMAIN versioned_routers :
           \/ is_valid_version(k) /\ ~is_valid_date(k) /\ Head(k) = "v"
           \/ is_valid_date(k) /\ ~is_valid_version(k)
    /\ group_and_sort_body(versioned_routers).kind = "ok"

\* a version registered without the prefix and a date are both keys
C13_Witness ==
    /\ call.fn = "include_router"
    /\ call.target = VerStr(FALSE, 1, 10, 0)
    /\ call.available # <<>>
    /\ VerStr(TRUE, 1, 10, 0) \in DOMAIN versioned_routers
    /\ DateStr(2024, 4, 10) \in DOMAIN versioned_routers

\* C14: include_router with a token that is neither a valid semantic version
\* nor a valid date (the empty string and the zero version included) raises,
\* and leaves the version table, the unversioned set and the documents as
\* they were.
C14_InvalidRegistrationRaises ==
    [][(/\ Registering
        /\ call'.target # None
        /\ ~ValidToken(call'.target))
       => /\ ret'.kind = "HTTPException"
          /\ versioned_routers' = versioned_routers
          /\ unversioned_routers' = unversioned_routers
          /\ swaggers' = swaggers]_vars

\* the zero version was refused for a non-empty group on a table with a bucket
C14_Witness ==
    /\ call.fn = "include_router"
    /\ call.target = VerStr(TRUE, 0, 0, 0)
    /\ call.available # <<>>
    /\ ret = Raise("HTTPException", "Invalid version format")
    /\ DOMAIN versioned_routers # {}
    /\ regs >= 2

\* C15: a registration under a valid token adds the group's routes at the end
\* of the one bucket of the token's normalized key, creating it when absent;
\* the routes registered before stay, in their order, at its front, and no
\* bucket appears under another key.
C15_SameKeyAccumulates ==
    [][(/\ Registering
        /\ call'.target # None
        /\ ValidToken(call'.target))
       => /\ ret'.kind = "ok"
          /\ IF call'.available = <<>> THEN versioned_routers' = versioned_routers
             ELSE /\ normalize_version(call'.target) \in DOMAIN versioned_routers'
                  /\ versioned_routers'[normalize_version(call'.target)]
                        = Bucket(versioned_routers, normalize_version(call'.target))
                              \o Copies(call'.available, call'.target)
          /\ DOMAIN versioned_routers' \subseteq
                 DOMAIN versioned_routers \cup {normalize_version(call'.target)}]_vars

\* "1.9.0" and then "v1.9.0" were registered: one bucket, first group first
C15_Witness ==
    /\ DOMAIN versioned_routers = {VerStr(TRUE, 1, 9, 0)}
    /\ versioned_routers[VerStr(TRUE, 1, 9, 0)]
           = <<Route("/heroes", TRUE, VerStr(FALSE, 1, 9, 0)),
               Route("/villains", TRUE, VerStr(TRUE, 1, 9, 0))>>
    /\ call.fn = "include_router"

\* the keys under which a document is generated: every bucket's key, and
\* "unversioned" once an unversioned route shown in the schema is registered
DocumentKeys ==
    DOMAIN versioned_routers
    \cup (IF \E i \in 1..Len(unversioned_routers) : unversioned_routers[i].in_schema
          THEN {Unversioned} ELSE {})

\* C17: after any sequence of registrations, the document lookup returns a
\* document exactly for a token equal to a registered key (or "unversioned"
\* once unversioned routes are registered) and answers not-found for every
\* other token; it never answers with a neighbouring bucket's document.
C17_DocumentLookupExact ==
    (call.fn = "openapi_jsons")
    => /\ (ret.kind = "ok") <=> (call.target \in DocumentKeys)
       /\ (ret.kind # "ok") => ret = Raise("HTTPException", "404")
       /\ (ret.kind = "ok") => ret.val = swaggers[call.target]

\* an unregistered version above a registered one was answered not-found
C17_Witness ==
    /\ call.fn = "openapi_jsons"
    /\ call.target = VerStr(TRUE, 1, 10, 5)
    /\ ret = Raise("HTTPException", "404")
    /\ VerStr(TRUE, 1, 10, 0) \in DOMAIN versioned_routers
    /\ VerStr(TRUE, 1, 9, 0) \in DOMAIN versioned_routers

\* C16: group_and_sort_routes partitions the registered keys into the dates and
\* the semantic versions, the dates in ascending chronological order and the
\* versions in ascending semantic-version precedence (numeric per component:
\* v1.9.0 before v1.10.0).
C16_GroupAndSortOrdered ==
    \A i \in Requests :
        (req[i].grouped.kind = "ok" /\ req[i].error = "")
        => LET dates == req[i].grouped.val.sorted_date_routes
               versions == req[i].grouped.val.sorted_version_routes
           IN /\ Range(dates) = {k \in DOMAIN versioned_routers : is_valid_date(k)}
              /\ Range(versions) = {k \in DOMAIN versioned_routers : is_valid_version(k)}
              /\ \A a, b \in 1..Len(dates) : a < b => DateBefore(dates[a], dates[b])
              /\ \A a, b \in 1..Len(versions) : a < b => PrecLess(versions[a], versions[b])

\* ------------------------------------------- validation and refused targets
ValidateCallDone == call.fn = "validate_version" /\ ret # NoRet

\* C18: validate_version raises "missing" for an empty or absent header,
\* "invalid format" for a non-empty token that is neither a semantic version nor
\* a date, and returns for every semantic version (with or without the v) and
\* every date.
C18_ValidateVersion ==
    ValidateCallDone
    => /\ call.target \in {<<>>, None}
            => ret = Raise("HTTPException", "Version header is missing")
       /\ call.target \in InvalidTokens \ {<<>>}
            => ret = Raise("HTTPException", "Invalid version format")
       /\ call.target \in VersionTokens \cup DateTokens => ret.kind = "ok"

\* a day that the month does not have was refused as a format error
C18_Witness ==
    /\ ValidateCallDone
    /\ call.target = DateStr(2024, 2, 30)
    /\ ret = Raise("HTTPException", "Invalid version format")

\* C19: find_closest_version with an empty candidate list raises "no available
\* versions" for every valid semantic-version target, and returns no version.
C19_EmptyCandidatesRaise ==
    (VersionCallDone /\ call.target \in VersionTokens /\ call.available = <<>>)
    => ret = Raise("ValueError", "No available versions found")

\* an unprefixed target was resolved against the empty list
C19_Witness ==
    /\ VersionCallDone
    /\ call.target = VerStr(FALSE, 1, 10, 0)
    /\ call.available = <<>>
    /\ ret.kind = "ValueError"

\* C20: find_closest_version raises "invalid version format" for every target
\* that is not a valid semantic version, and find_closest_date raises "invalid
\* date format" for every target that is not a valid date, whatever the
\* candidate list holds; no candidate is returned.
C20_InvalidTargetRaises ==
    /\ (VersionCallDone /\ call.target \in InvalidTokens \cup DateTokens)
           => ret = Raise("ValueError", "Invalid version format")
    /\ (DateCallDone /\ call.target \in InvalidTokens \cup VersionTokens)
           => ret = Raise("ValueError", "Invalid date format")

\* a date written with a one-digit month was refused over two valid candidates
C20_Witness ==
    /\ DateCallDone
    /\ call.target = <<"2", "0", "2", "4", "-", "4", "-", "2", "9">>
    /\ call.available = <<DateStr(2024, 4, 20), DateStr(2024, 4, 10)>>
    /\ ret = Raise("ValueError", "Invalid date format")

\* C21: a registration changes one list only: with a token, the bucket of the
\* token's normalized key (every other bucket and the unversioned set keep their
\* route lists); without a token, the unversioned set (every bucket keeps its
\* route list), also when requests were dispatched before the registration.
C21_RegistrationChangesOneList ==
    [][(regs' = regs + 1)
       => \/ versioned_routers' = versioned_routers
          \/ /\ unversioned_routers' = unversioned_routers
             /\ DOMAIN versioned_routers \subseteq DOMAIN versioned_routers'
             /\ \E k \in DOMAIN versioned_routers' :
                    \A j \in DOMAIN versioned_routers' \ {k} :
                       /\ j \in DOMAIN versioned_routers
                       /\ versioned_routers'[j] = versioned_routers[j]]_vars

====
